---- MODULE Spec2Model ----
(***************************************************************************)
(* apt_scanner: the listing store (save_listings_to_db,                    *)
(* mark_offmarket_listings, reactivate_listing, mark_stale_listings), the  *)
(* coverage-gated scheduled run (run_scheduled_scrape) and its ledger, the *)
(* Craigslist and StreetEasy scrapers, the neighborhood lookup of          *)
(* services/geo.py, the scrape router of api/scraper.py and the database   *)
(* migration of scripts/migrate_to_supabase.py.                            *)
(***************************************************************************)
EXTENDS Integers, Sequences, FiniteSets, TLC

\* ------------------------------------------------------------------ bounds
\* Calls that read the clock are enabled while now < MaxTime.
MaxTime == 3
\* Scheduled runs that may be started.
MaxRuns == 3

\* ------------------------------------------------------------- value sets
\* A nullable DateTime / Integer column holding NULL (Python None).
None == -1
\* ScrapedListing has no laundry_type field; the attribute exists only when
\* the Craigslist detail fetch assigned it.
Unset == "unset"

Sources == {"craigslist", "streeteasy"}
Ids == {"A", "B"}
\* Ids the scheduled scraper's candidates carry, and the sources a scheduled
\* run is asked for ("zillow" has no scraper).
RunIds == {"A", "B", "C", "D"}
RunSources == {"craigslist", "zillow"}
\* hours_threshold values, in clock units.
StaleHours == {0, 1}

\* Neighborhood texts: none, the text the results page shows in parentheses
\* (_extract_listing_from_result), and a name get_neighborhood resolved from
\* the coordinates of the detail page.
NoName == ""
RawName == "raw"
NtaName == "nta"

ScrapedListing(id, src, title, price, neighborhood, images, latitude, longitude, laundry) ==
    [external_id |-> id, source |-> src, title |-> title, price |-> price,
     neighborhood |-> neighborhood, images |-> images,
     latitude |-> latitude, longitude |-> longitude,
     laundry_type |-> laundry]

\* The scraped items direct callers draw batches from: an item enriched with
\* coordinates, gallery and resolved neighborhood; items whose detail page
\* gave no coordinates (raw or no neighborhood text); an item whose detail
\* fetch assigned nothing.
Candidates ==
    { ScrapedListing("A", "craigslist", "t1", 1000, NtaName, <<"img">>, 40, -73, "in_unit"),
      ScrapedListing("A", "craigslist", "t2", 1200, RawName, <<>>, None, None, "none"),
      ScrapedListing("B", "craigslist", "t1", 1000, NoName, <<>>, None, None, "building"),
      ScrapedListing("A", "streeteasy", "t1", 1000, RawName, <<>>, None, None, "none"),
      ScrapedListing("B", "craigslist", "t2", 900, RawName, <<>>, None, None, Unset) }

\* Batches a direct caller hands to save_listings_to_db: one item, or two
\* (two of one key included).
BatchLens == 1..2
Batches == UNION { [1..n -> Candidates] : n \in BatchLens }

\* The scrape_run_id a direct caller passes with the call made at time t:
\* every direct call is made for a run of its own, ids increasing.
RunOf(t) == t

VARIABLES
    store,   \* the listings table: rows in insertion order (row id = index)
    now,     \* the clock read by datetime.utcnow()
    last,    \* the last call: its name, arguments and return value
    runs,    \* the scrape_runs table (row id = index)
    sched,   \* run_scheduled_scrape: position and locals of the run in flight
    \* _fetch_details_parallel
    prefetch,            \* the listings as they were passed in
    pages,               \* the detail page behind each listing's url
    detail_concurrency,  \* CraigslistScraper.detail_concurrency
    listings,            \* the listing objects (mutated in place)
    semaphore,           \* the value of the asyncio.Semaphore
    task,                \* position of each fetch_with_semaphore coroutine
    failed,              \* where each listing's detail fetch raised ("none" if not)
    results,             \* the list returned (empty until gather returns)
    \* CraigslistScraper.scrape_batch
    max_listings,        \* its argument
    all_listings,        \* external ids of the listings collected, in order
    seen_ids,
    empty_pages,
    scroll_count,
    page_listings,       \* what the last _scrape_page call returned
    scroll,              \* position: "idle", "goto", "loop", "returned", "raised"
    \* StreetEasyScraper.scrape
    max_pages,           \* its argument
    page_num,            \* the loop variable
    se_listings,         \* external ids of its list `listings`, in order
    se_timeouts,         \* pages whose page.goto timed out
    se,                  \* position: "idle", "loop", "returned"
    \* services/geo.py
    geojson,             \* the file data/nyc_nta.geojson
    _neighborhoods,      \* the module's list of (name, borough, polygon)
    _loaded,             \* the module's flag
    caller,              \* each thread's call into the module: position and locals
    geo_calls,           \* calls made so far
    \* a second run_scheduled_scrape process
    parked,              \* position and locals of the run that is not at its step
    \* _fetch_detail_page, the laundry loop
    attr_elems,          \* the texts of the ".attrgroup span" elements, lowercased
    attr_index,          \* the element the for loop is at (past the end: loop left)
    laundry,             \* listing.laundry_type
    \* api/scraper.py
    scrape_status,       \* the module's dict scrape_status
    request,             \* each client's request to the router: position and response
    api_calls,           \* requests made so far
    \* scripts/migrate_to_supabase.py
    source_db,           \* the listings table of the source database
    target_db,           \* the listings table of the target database
    offset,              \* the loop variable of migrate_data
    migration            \* migrate_data: position, batch_size and calls made

storeVars == <<store, now, last, runs, sched>>

enrichVars == <<prefetch, pages, detail_concurrency, listings, semaphore, task,
                failed, results>>

scrollVars == <<max_listings, all_listings, seen_ids, empty_pages, scroll_count,
                page_listings, scroll>>

pageVars == <<max_pages, page_num, se_listings, se_timeouts, se>>

geoVars == <<geojson, _neighborhoods, _loaded, caller, geo_calls>>

triggerVars == <<parked>>

attrVars == <<attr_elems, attr_index, laundry>>

apiVars == <<scrape_status, request, api_calls>>

migrateVars == <<source_db, target_db, offset, migration>>

scraperVars == <<enrichVars, scrollVars, pageVars, geoVars, triggerVars, attrVars,
                 apiVars, migrateVars>>

vars == <<storeVars, scraperVars>>

\* ------------------------------------------------------------ Listing rows
KeyOf(row) == <<row.source, row.external_id>>

Keys(rows) == { KeyOf(rows[i]) : i \in DOMAIN rows }

\* Rows a query filtered on (source, external_id) returns.
Matching(rows, src, id) ==
    { i \in DOMAIN rows : rows[i].source = src /\ rows[i].external_id = id }

\* save_listings_to_db, the row built for an item whose key was not found.
NewListing(item, run, t) ==
    [external_id |-> item.external_id, source |-> item.source,
     title |-> item.title, price |-> item.price,
     neighborhood |-> item.neighborhood, neighborhood_nta |-> item.neighborhood,
     latitude |-> item.latitude, longitude |-> item.longitude,
     laundry_type |-> item.laundry_type, images |-> item.images,
     first_seen |-> t, last_seen |-> t,
     is_active |-> TRUE, deactivated_at |-> None,
     last_scrape_run_id |-> run]

\* UpdateExisting adding the scraped images to the stored ones.
UpdateExistingAppendImages(row, item, run, t) ==
    [row EXCEPT !.last_seen = t,
                !.price = item.price,
                !.is_active = TRUE,
                !.deactivated_at = None,
                !.last_scrape_run_id = run,
                !.images = @ \o item.images,
                !.latitude = IF item.latitude # None THEN item.latitude ELSE @,
                !.longitude = IF item.longitude # None THEN item.longitude ELSE @,
                !.neighborhood = IF item.neighborhood # NoName
                                 THEN item.neighborhood ELSE @,
                !.neighborhood_nta = IF item.neighborhood # NoName
                                     THEN item.neighborhood ELSE @,
                !.laundry_type = IF item.laundry_type # "" THEN item.laundry_type ELSE @]

\* UpdateExisting without the reactivation of the row.
UpdateExistingKeepState(row, item, run, t) ==
    [row EXCEPT !.last_seen = t,
                !.price = item.price,
                !.last_scrape_run_id = run,
                !.images = IF item.images # <<>> THEN item.images ELSE @,
                !.latitude = IF item.latitude # None THEN item.latitude ELSE @,
                !.longitude = IF item.longitude # None THEN item.longitude ELSE @,
                !.neighborhood = IF item.neighborhood # NoName
                                 THEN item.neighborhood ELSE @,
                !.neighborhood_nta = IF item.neighborhood # NoName
                                     THEN item.neighborhood ELSE @,
                !.laundry_type = IF item.laundry_type # "" THEN item.laundry_type ELSE @]

\* save_listings_to_db, the assignments to the row found for an item.
UpdateExisting(row, item, run, t) ==
    [row EXCEPT !.last_seen = t,
                !.price = item.price,
                !.is_active = TRUE,
                !.deactivated_at = None,
                !.last_scrape_run_id = run,
                !.images = IF item.images # <<>> THEN item.images ELSE @,
                !.latitude = IF item.latitude # None THEN item.latitude ELSE @,
                !.longitude = IF item.longitude # None THEN item.longitude ELSE @,
                !.neighborhood = IF item.neighborhood # NoName
                                 THEN item.neighborhood ELSE @,
                !.neighborhood_nta = IF item.neighborhood # NoName
                                     THEN item.neighborhood ELSE @,
                !.laundry_type = IF item.laundry_type # "" THEN item.laundry_type ELSE @]

\* The loop of save_listings_to_db.  The session does not autoflush, so a row
\* added for an earlier item of the batch is not seen by the query of a later
\* item: lookups read the committed rows only, and the added rows are written
\* by the commit that ends the call.  query.first() has no ORDER BY, so any
\* matching row may be the one returned.  Reading item.laundry_type raises
\* AttributeError when the attribute was never assigned; the call then ends
\* without a commit.  The value is the set of possible outcomes.
RECURSIVE SaveLoop(_, _, _, _, _, _, _, _)
SaveLoop(rows, added, batch, run, t, nnew, nupd, ids) ==
    IF batch = <<>>
    THEN { [raised |-> FALSE, rows |-> rows \o added,
            new |-> nnew, updated |-> nupd, ids |-> ids] }
    ELSE LET item == Head(batch)
             found == Matching(rows, item.source, item.external_id)
         IN  IF item.laundry_type = Unset
             THEN { [raised |-> TRUE, rows |-> <<>>,
                     new |-> 0, updated |-> 0, ids |-> {}] }
             ELSE IF found # {}
             THEN UNION { SaveLoop([rows EXCEPT ![i] = UpdateExisting(rows[i], item, run, t)],
                                   added, Tail(batch), run, t, nnew, nupd + 1,
                                   ids \cup {item.external_id}) : i \in found }
             ELSE SaveLoop(rows, Append(added, NewListing(item, run, t)),
                           Tail(batch), run, t, nnew + 1, nupd,
                           ids \cup {item.external_id})

\* SaveListingsToDb adding an external id to the returned set only where it
\* inserts a listing.
SaveListingsToDbNewIdsOnly(rows, batch, run, t) ==
    { [out EXCEPT !.ids = { batch[k].external_id :
                              k \in { j \in DOMAIN batch :
                                        Matching(rows, batch[j].source,
                                                 batch[j].external_id) = {} } }] :
        out \in SaveLoop(rows, <<>>, batch, run, t, 0, 0, {}) }

\* save_listings_to_db(db, scraped, scrape_run_id): the possible outcomes.
SaveListingsToDb(rows, batch, run, t) ==
    SaveLoop(rows, <<>>, batch, run, t, 0, 0, {})

\* MarkRow with the deactivation time left out of the SET clause.
MarkRowKeepNull(row, run, t) ==
    [row EXCEPT !.is_active = FALSE,
                !.last_scrape_run_id = run,
                !.last_seen = t]

\* mark_offmarket_listings: the SET clause of the bulk UPDATE.  last_seen is
\* not in the clause, so its onupdate default fills it in.
MarkRow(row, run, t) ==
    [row EXCEPT !.is_active = FALSE,
                !.deactivated_at = t,
                !.last_scrape_run_id = run,
                !.last_seen = t]

\* OffmarketFilter without the source condition.
OffmarketFilterAnySource(row, src, disappeared) ==
    /\ row.external_id \in disappeared
    /\ row.is_active

\* OffmarketFilter without the is_active condition.
OffmarketFilterAnyState(row, src, disappeared) ==
    /\ row.source = src
    /\ row.external_id \in disappeared

\* mark_offmarket_listings: the WHERE clause of the bulk UPDATE.
OffmarketFilter(row, src, disappeared) ==
    /\ row.source = src
    /\ row.external_id \in disappeared
    /\ row.is_active

\* MarkOffmarketListings taking every listing active before the scrape for
\* one that disappeared.
MarkOffmarketListingsAllBefore(rows, src, active_before, scraped_ids, run, t) ==
    LET hit == { i \in DOMAIN rows : OffmarketFilter(rows[i], src, active_before) }
    IN  IF active_before = {}
        THEN [rows |-> rows, count |-> 0]
        ELSE [rows |-> [i \in DOMAIN rows |->
                           IF i \in hit THEN MarkRow(rows[i], run, t) ELSE rows[i]],
              count |-> Cardinality(hit)]

\* mark_offmarket_listings(db, source, active_before, scraped_ids, run).
MarkOffmarketListings(rows, src, active_before, scraped_ids, run, t) ==
    LET disappeared == active_before \ scraped_ids
        hit == { i \in DOMAIN rows : OffmarketFilter(rows[i], src, disappeared) }
    IN  IF disappeared = {}
        THEN [rows |-> rows, count |-> 0]
        ELSE [rows |-> [i \in DOMAIN rows |->
                           IF i \in hit THEN MarkRow(rows[i], run, t) ELSE rows[i]],
              count |-> Cardinality(hit)]

\* ReactivateRow stamping first_seen as well.
ReactivateRowRestamp(row, run, t) ==
    [row EXCEPT !.is_active = TRUE,
                !.deactivated_at = None,
                !.first_seen = t,
                !.last_seen = t,
                !.last_scrape_run_id = run]

\* reactivate_listing: the assignments to the listing found.
ReactivateRow(row, run, t) ==
    [row EXCEPT !.is_active = TRUE,
                !.deactivated_at = None,
                !.last_seen = t,
                !.last_scrape_run_id = run]

\* ReactivateListing without the "already active" early return.
ReactivateListingAlways(rows, src, id, run, t) ==
    LET found == Matching(rows, src, id)
    IN  IF found = {}
        THEN { [rows |-> rows, ret |-> FALSE] }
        ELSE { [rows |-> [rows EXCEPT ![i] = ReactivateRow(rows[i], run, t)],
                ret |-> TRUE] : i \in found }

\* reactivate_listing(db, source, external_id, run): the possible outcomes
\* (one per row query.first() may return).
ReactivateListing(rows, src, id, run, t) ==
    LET found == Matching(rows, src, id)
    IN  IF found = {}
        THEN { [rows |-> rows, ret |-> FALSE] }
        ELSE { IF rows[i].is_active
               THEN [rows |-> rows, ret |-> FALSE]
               ELSE [rows |-> [rows EXCEPT ![i] = ReactivateRow(rows[i], run, t)],
                     ret |-> TRUE] : i \in found }

\* get_active_external_ids(db, source).
GetActiveExternalIds(rows, src) ==
    { rows[i].external_id : i \in { j \in DOMAIN rows :
                                      rows[j].source = src /\ rows[j].is_active } }

\* mark_stale_listings: the SET clause of the bulk UPDATE (last_seen by its
\* onupdate default).
StaleRow(row, t) ==
    [row EXCEPT !.is_active = FALSE, !.deactivated_at = t, !.last_seen = t]

\* MarkStaleListings deleting the stale rows instead of updating them.
MarkStaleListingsPurge(rows, src, hours, t) ==
    LET Fresh(row) == ~(/\ row.source = src
                        /\ row.is_active
                        /\ row.last_seen < t - hours)
    IN  [rows |-> SelectSeq(rows, Fresh),
         count |-> Len(rows) - Len(SelectSeq(rows, Fresh))]

\* mark_stale_listings(db, source, hours_threshold).
MarkStaleListings(rows, src, hours, t) ==
    LET cutoff == t - hours
        hit == { i \in DOMAIN rows : /\ rows[i].source = src
                                     /\ rows[i].is_active
                                     /\ rows[i].last_seen < cutoff }
    IN  [rows |-> [i \in DOMAIN rows |->
                      IF i \in hit THEN StaleRow(rows[i], t) ELSE rows[i]],
         count |-> Cardinality(hit)]

\* ------------------------------------------------------------------- state
NoCall == [op |-> "none", args |-> <<>>, ret |-> <<>>, again |-> FALSE]

Idle == [pc |-> "idle", id |-> None, source |-> "", active_before |-> {},
         result |-> <<>>]

\* The tables and the scheduled run before any call.
StoreInit ==
    /\ store = <<>>
    /\ now = 0
    /\ last = NoCall
    /\ runs = <<>>
    /\ sched = Idle

\* No detail enrichment under way.
EnrichIdle ==
    /\ prefetch = <<>>
    /\ pages = <<>>
    /\ detail_concurrency = 0
    /\ listings = <<>>
    /\ semaphore = 0
    /\ task = <<>>
    /\ failed = <<>>
    /\ results = <<>>

\* No scrape_batch call under way.
ScrollIdle ==
    /\ max_listings = 0
    /\ all_listings = <<>>
    /\ seen_ids = {}
    /\ empty_pages = 0
    /\ scroll_count = 0
    /\ page_listings = <<>>
    /\ scroll = "idle"

\* No StreetEasyScraper.scrape call under way.
PagesIdle ==
    /\ max_pages = 0
    /\ page_num = 0
    /\ se_listings = <<>>
    /\ se_timeouts = {}
    /\ se = "idle"

\* A thread that is not inside services/geo.py.
IdleCaller == [pc |-> "idle", op |-> "", lat |-> None, lon |-> None, idx |-> 0,
               ret |-> ""]

\* services/geo.py as imported, no file read and nobody calling.
GeoIdle ==
    /\ geojson = [readable |-> FALSE, features |-> <<>>]
    /\ _neighborhoods = <<>>
    /\ _loaded = FALSE
    /\ caller = <<>>
    /\ geo_calls = 0

\* No second run.
TriggersIdle == parked = Idle

\* No detail page being read.
AttrsIdle ==
    /\ attr_elems = <<>>
    /\ attr_index = 0
    /\ laundry = Unset

\* api/scraper.py as imported, no request made.
NoFeed == [pages |-> <<>>, fail_at |-> None]

NoRequest == [pc |-> "idle", source |-> "", feed |-> NoFeed, response |-> "none",
              result |-> <<>>]

ApiIdle ==
    /\ scrape_status = [running |-> FALSE, last_result |-> "None"]
    /\ request = <<>>
    /\ api_calls = 0

\* No migration under way.
MigrateIdle ==
    /\ source_db = <<>>
    /\ target_db = <<>>
    /\ offset = 0
    /\ migration = [pc |-> "idle", batch_size |-> 0, calls |-> 0]

Init ==
    /\ StoreInit
    /\ EnrichIdle
    /\ ScrollIdle
    /\ PagesIdle
    /\ GeoIdle
    /\ TriggersIdle
    /\ AttrsIdle
    /\ ApiIdle
    /\ MigrateIdle

\* The record of a call; again tells that the previous call was the same
\* operation with the same arguments.
Call(op, args, ret) ==
    [op |-> op, args |-> args, ret |-> ret,
     again |-> (last.op = op /\ last.args = args)]

\* --------------------------------------------------- direct calls (Spec)
Save(batch) ==
    /\ now < MaxTime
    /\ now' = now + 1
    /\ \E out \in SaveListingsToDb(store, batch, RunOf(now + 1), now + 1) :
          /\ store' = (IF out.raised THEN store ELSE out.rows)
          /\ last' = Call("save", [batch |-> batch],
                          [raised |-> out.raised, new |-> out.new,
                           updated |-> out.updated, ids |-> out.ids])
    /\ UNCHANGED <<runs, sched>>
    /\ UNCHANGED scraperVars

MarkOffmarket(src, active_before, scraped_ids) ==
    /\ now < MaxTime
    /\ now' = now + 1
    /\ LET out == MarkOffmarketListings(store, src, active_before, scraped_ids,
                                        RunOf(now + 1), now + 1)
       IN  /\ store' = out.rows
           /\ last' = Call("mark", [source |-> src, active_before |-> active_before,
                                    scraped_ids |-> scraped_ids],
                           out.count)
    /\ UNCHANGED <<runs, sched>>
    /\ UNCHANGED scraperVars

Reactivate(src, id) ==
    /\ now < MaxTime
    /\ now' = now + 1
    /\ \E out \in ReactivateListing(store, src, id, RunOf(now + 1), now + 1) :
          /\ store' = out.rows
          /\ last' = Call("reactivate", [source |-> src, external_id |-> id],
                          out.ret)
    /\ UNCHANGED <<runs, sched>>
    /\ UNCHANGED scraperVars

MarkStale(src, hours) ==
    /\ now < MaxTime
    /\ now' = now + 1
    /\ LET out == MarkStaleListings(store, src, hours, now + 1)
       IN  /\ store' = out.rows
           /\ last' = Call("stale", [source |-> src, hours |-> hours], out.count)
    /\ UNCHANGED <<runs, sched>>
    /\ UNCHANGED scraperVars

Next ==
    \/ \E batch \in Batches : Save(batch)
    \/ \E src \in Sources, ab \in SUBSET Ids, sc \in SUBSET Ids :
          MarkOffmarket(src, ab, sc)
    \/ \E src \in Sources, id \in Ids : Reactivate(src, id)
    \/ \E src \in Sources, hours \in StaleHours : MarkStale(src, hours)

Spec == Init /\ [][Next]_vars

\* ------------------------------------- run_scheduled_scrape (SpecRun)
NoText == "null"

\* ScrapeRun creating the row in a status of its own.
ScrapeRunPending(src, t) ==
    [source |-> src, started_at |-> t, completed_at |-> None,
     status |-> "pending", listings_found |-> 0, listings_new |-> 0,
     listings_updated |-> 0, listings_marked_inactive |-> 0,
     error_message |-> NoText, triggered_by |-> "scheduled"]

\* A ScrapeRun row as run_scheduled_scrape creates it.
ScrapeRun(src, t) ==
    [source |-> src, started_at |-> t, completed_at |-> None,
     status |-> "running", listings_found |-> 0, listings_new |-> 0,
     listings_updated |-> 0, listings_marked_inactive |-> 0,
     error_message |-> NoText, triggered_by |-> "scheduled"]

\* The candidate the scroll scraper returns for an id.
RunCandidate(id, src) ==
    ScrapedListing(id, src, "t1", 1000, RawName, <<>>, None, None, "none")

\* The scraper's result list for a set of ids.  scrape_batch keeps one
\* candidate per external_id (seen_ids), so no key occurs twice and the
\* order of the list does not matter to save_listings_to_db.
RECURSIVE ScrapedList(_, _)
ScrapedList(ids, src) ==
    IF ids = {} THEN <<>>
    ELSE LET id == CHOOSE x \in ids : TRUE
         IN  <<RunCandidate(id, src)>> \o ScrapedList(ids \ {id}, src)

\* GateOpen with a strict comparison.
GateOpenStrict(active_before, scraped_ids) ==
    IF active_before = {}
    THEN TRUE
    ELSE 2 * Cardinality(scraped_ids) > Cardinality(active_before)

\* The coverage test of run_scheduled_scrape.
GateOpen(active_before, scraped_ids) ==
    IF active_before = {}
    THEN TRUE
    ELSE 2 * Cardinality(scraped_ids) >= Cardinality(active_before)

\* FailedRun leaving completed_at unset.
FailedRunNoStamp(run, msg, t) ==
    [run EXCEPT !.status = "failed", !.error_message = msg]

\* The ScrapeRun row after the failure branch / the except handler.
FailedRun(run, msg, t) ==
    [run EXCEPT !.status = "failed", !.error_message = msg, !.completed_at = t]

\* CompletedRun leaving the counts of the run at their defaults.
CompletedRunNoCounts(run, result, off_market_count, t) ==
    [run EXCEPT !.completed_at = t, !.status = "completed"]

\* The ScrapeRun row after the completion update.
CompletedRun(run, result, off_market_count, t) ==
    [run EXCEPT !.completed_at = t,
                !.status = "completed",
                !.listings_found = result.scraped,
                !.listings_new = result.new,
                !.listings_updated = result.updated,
                !.listings_marked_inactive = off_market_count]

\* KnownSource taking every source for one it has a scraper for.
KnownSourceAny(src) == TRUE

\* run_scrape_and_store: the sources its if / elif chain has a branch for;
\* every other source gets {"error": ...}.
KnownSource(src) == src \in Sources

RunArgs == [id |-> sched.id, source |-> sched.source,
            active_before |-> sched.active_before]

\* Lines 36-55: the ScrapeRun row is created and the active ids are read.
RunStart(src) ==
    /\ sched.pc = "idle"
    /\ Len(runs) < MaxRuns
    /\ runs' = Append(runs, ScrapeRun(src, now))
    /\ sched' = [pc |-> "scrape", id |-> Len(runs) + 1, source |-> src,
                 active_before |-> GetActiveExternalIds(store, src),
                 result |-> <<>>]
    /\ UNCHANGED <<store, now, last>>
    /\ UNCHANGED scraperVars

\* Lines 59-65, run_scrape_and_store returning a result for a known source:
\* the scraped candidates are reconciled under the run's id.
RunScrapeStore(ids) ==
    /\ sched.pc = "scrape"
    /\ KnownSource(sched.source)
    /\ now' = now + 1
    /\ \E out \in SaveListingsToDb(store, ScrapedList(ids, sched.source),
                                   sched.id, now + 1) :
          /\ ~out.raised
          /\ store' = out.rows
          /\ sched' = [sched EXCEPT !.pc = "offmarket",
                          !.result = [scraped |-> Cardinality(ids), new |-> out.new,
                                      updated |-> out.updated,
                                      scraped_external_ids |-> out.ids]]
    /\ UNCHANGED <<runs, last>>
    /\ UNCHANGED scraperVars

\* Lines 59-77, run_scrape_and_store returning {"error": ...}: the run is
\* recorded as failed and the result returned.
RunScrapeError ==
    /\ sched.pc = "scrape"
    /\ ~KnownSource(sched.source)
    /\ now' = now + 1
    /\ runs' = [runs EXCEPT ![sched.id] = FailedRun(@, "Unknown source", now + 1)]
    /\ last' = Call("run", RunArgs, [status |-> "failed", raised |-> FALSE,
                                     scraped_ids |-> {}, marked |-> 0])
    /\ sched' = Idle
    /\ UNCHANGED store
    /\ UNCHANGED scraperVars

\* Lines 59-69 and 123-137, run_scrape_and_store or the session opened after
\* it raising: the except handler records the failure in a session of its own
\* and re-raises.  When that session raises too the handler passes, and the
\* row stays as it was created.
RunScrapeRaise(recorded) ==
    /\ sched.pc = "scrape"
    /\ now' = now + 1
    /\ runs' = (IF recorded
                THEN [runs EXCEPT ![sched.id] = FailedRun(@, "exception", now + 1)]
                ELSE runs)
    /\ last' = Call("run", RunArgs, [status |-> "failed", raised |-> TRUE,
                                     scraped_ids |-> {}, marked |-> 0])
    /\ sched' = Idle
    /\ UNCHANGED store
    /\ UNCHANGED scraperVars

\* Lines 79-121: the coverage gate, the off-market update and the completion
\* of the ScrapeRun row.
RunOffmarket ==
    /\ sched.pc = "offmarket"
    /\ now' = now + 1
    /\ LET scraped_ids == sched.result.scraped_external_ids
           out == IF GateOpen(sched.active_before, scraped_ids)
                  THEN MarkOffmarketListings(store, sched.source, sched.active_before,
                                             scraped_ids, sched.id, now + 1)
                  ELSE [rows |-> store, count |-> 0]
       IN  /\ store' = out.rows
           /\ runs' = [runs EXCEPT ![sched.id] =
                          CompletedRun(@, sched.result, out.count, now + 1)]
           /\ last' = Call("run", RunArgs, [status |-> "success", raised |-> FALSE,
                                            scraped_ids |-> scraped_ids,
                                            marked |-> out.count])
    /\ sched' = Idle
    /\ UNCHANGED scraperVars

NextRun ==
    \/ \E src \in RunSources : RunStart(src)
    \/ \E ids \in SUBSET RunIds : RunScrapeStore(ids)
    \/ RunScrapeError
    \/ \E recorded \in BOOLEAN : RunScrapeRaise(recorded)
    \/ RunOffmarket

SpecRun == Init /\ [][NextRun]_vars

\* asyncio.run drives the coroutine to its end: once run_scrape_and_store
\* has returned, the statements after it are executed.
SpecRunLive == SpecRun /\ WF_vars(RunOffmarket)

\* ------------------- concurrent run_scheduled_scrape (SpecTriggers)
\* Two processes run run_scheduled_scrape against one database.  The steps
\* are taken by the run held in sched; the other one rests in parked, and
\* the two change places between steps.
Switch ==
    /\ sched # parked
    /\ sched' = parked
    /\ parked' = sched
    /\ UNCHANGED <<store, now, last, runs>>
    /\ UNCHANGED <<enrichVars, scrollVars, pageVars, geoVars, attrVars, apiVars, migrateVars>>

NextTriggers ==
    \/ \E src \in RunSources : RunStart(src)
    \/ \E ids \in SUBSET Ids : RunScrapeStore(ids)
    \/ RunScrapeError
    \/ \E recorded \in BOOLEAN : RunScrapeRaise(recorded)
    \/ RunOffmarket
    \/ Switch

SpecTriggers == Init /\ [][NextTriggers]_vars

\* ------------------------- _fetch_details_parallel (SpecEnrich)
\* Listings handed to one _fetch_details_parallel call.
MaxCandidates == 3
\* detail_concurrency values.
ConcurrencyArgs == {1, 2}

NoAddress == ""

\* A listing as _extract_listing_from_result builds it from the results page:
\* a thumbnail, the raw location text, no address, no coordinates and no
\* laundry_type attribute.
ExtractedListing(id) ==
    [external_id |-> id, images |-> <<"thumb">>, address |-> NoAddress,
     neighborhood |-> RawName, latitude |-> None, longitude |-> None,
     laundry_type |-> Unset]

\* Detail pages: one with a map inside an NTA polygon (nta is the name
\* get_neighborhood gives for its coordinates), a gallery, an address and a
\* laundry attribute; one with none of them.
FullPage ==
    [latitude |-> 40, longitude |-> -73, images |-> <<"img">>,
     address |-> "addr", laundry_type |-> "in_unit", nta |-> NtaName]

BarePage ==
    [latitude |-> None, longitude |-> None, images |-> <<>>,
     address |-> NoAddress, laundry_type |-> Unset, nta |-> NoName]

\* A detail page with a map outside every NTA polygon, a gallery and a
\* laundry attribute.
OutsidePage ==
    [latitude |-> 41, longitude |-> -75, images |-> <<"img">>,
     address |-> NoAddress, laundry_type |-> "building", nta |-> NoName]

\* The pages behind n listings: full, bare and outside pages take turns, any
\* of them first.
PageLayouts(n) ==
    LET kinds == <<FullPage, BarePage, OutsidePage>>
    IN  { [i \in 1..n |-> kinds[((i + k) % 3) + 1]] : k \in 0..2 }

\* The steps of _fetch_detail_page in program order, and the places a detail
\* fetch may raise: browser_context.new_page(), or an await of one of the
\* steps ("goto" includes the PlaywrightTimeout of page.goto).
StageOf == [goto |-> 1, map |-> 2, gallery |-> 3, address |-> 4, attrs |-> 5]

FailPoints == {"none", "new_page"} \cup DOMAIN StageOf

\* The step ran to its end: nothing raised in it or before it.
Completed(stage, failAt) ==
    \/ failAt = "none"
    \/ failAt \in DOMAIN StageOf /\ StageOf[failAt] > StageOf[stage]

\* FetchDetailPage assigning the gallery without testing it for emptiness.
FetchDetailPageAnyGallery(listing, page, failAt) ==
    [listing EXCEPT
        !.latitude = IF Completed("map", failAt) /\ page.latitude # None
                     THEN page.latitude ELSE @,
        !.longitude = IF Completed("map", failAt) /\ page.longitude # None
                      THEN page.longitude ELSE @,
        !.images = IF Completed("gallery", failAt) THEN page.images ELSE @,
        !.address = IF Completed("address", failAt) /\ page.address # NoAddress
                    THEN page.address ELSE @,
        !.laundry_type = IF Completed("attrs", failAt) /\ page.laundry_type # Unset
                         THEN page.laundry_type ELSE @]

\* _fetch_detail_page(listing, page): the listing it returns.  Both except
\* clauses return the listing as the steps before the exception left it.
FetchDetailPage(listing, page, failAt) ==
    [listing EXCEPT
        !.latitude = IF Completed("map", failAt) /\ page.latitude # None
                     THEN page.latitude ELSE @,
        !.longitude = IF Completed("map", failAt) /\ page.longitude # None
                      THEN page.longitude ELSE @,
        !.images = IF Completed("gallery", failAt) /\ page.images # <<>>
                   THEN page.images ELSE @,
        !.address = IF Completed("address", failAt) /\ page.address # NoAddress
                    THEN page.address ELSE @,
        !.laundry_type = IF Completed("attrs", failAt) /\ page.laundry_type # Unset
                         THEN page.laundry_type ELSE @]

\* A listing slot holding Python None.
NoListing == [external_id |-> None]

\* FetchDetailPageSafe returning None for a listing whose fetch raised.
FetchDetailPageSafeOrNone(listing, page, failAt) ==
    IF failAt # "none"
    THEN NoListing
    ELSE LET l == FetchDetailPage(listing, page, failAt)
         IN  IF l.latitude # None /\ l.longitude # None /\ page.nta # NoName
             THEN [l EXCEPT !.neighborhood = page.nta]
             ELSE l

\* FetchDetailPageSafe leaving the neighborhood of the results page.
FetchDetailPageSafeKeepRaw(listing, page, failAt) ==
    IF failAt = "new_page"
    THEN listing
    ELSE FetchDetailPage(listing, page, failAt)

\* _fetch_detail_page_safe(listing, browser_context): the listing it returns.
\* When new_page() raises, _fetch_detail_page is not called; otherwise the
\* neighborhood is classified from whatever coordinates the listing then has.
FetchDetailPageSafe(listing, page, failAt) ==
    IF failAt = "new_page"
    THEN listing
    ELSE LET l == FetchDetailPage(listing, page, failAt)
         IN  IF l.latitude # None /\ l.longitude # None /\ page.nta # NoName
             THEN [l EXCEPT !.neighborhood = page.nta]
             ELSE l

\* asyncio.Semaphore(n) with one permit more than asked for.
SemaphoreOneMore(n) == n + 1

\* asyncio.Semaphore(self.detail_concurrency): the initial value.
Semaphore(n) == n

\* _fetch_details_parallel called with n listings: gather has created one
\* fetch_with_semaphore coroutine per listing, none has run yet.
InitEnrich ==
    /\ StoreInit
    /\ \E n \in 1..MaxCandidates :
          /\ prefetch = [i \in 1..n |-> ExtractedListing(i)]
          /\ listings = [i \in 1..n |-> ExtractedListing(i)]
          /\ pages \in PageLayouts(n)
          /\ task = [i \in 1..n |-> "waiting"]
          /\ failed = [i \in 1..n |-> "none"]
    /\ detail_concurrency \in ConcurrencyArgs
    /\ semaphore = Semaphore(detail_concurrency)
    /\ results = <<>>
    /\ ScrollIdle
    /\ PagesIdle
    /\ GeoIdle
    /\ TriggersIdle
    /\ AttrsIdle
    /\ ApiIdle
    /\ MigrateIdle

\* async with semaphore: the coroutine enters when a permit is free.  gather
\* starts the coroutines in the order of the listings and the semaphore wakes
\* its waiters first come, first served, so permits go out in list order.
Acquire(i) ==
    /\ task[i] = "waiting"
    /\ \A j \in DOMAIN task : j < i => task[j] # "waiting"
    /\ semaphore > 0
    /\ semaphore' = semaphore - 1
    /\ task' = [task EXCEPT ![i] = "fetching"]
    /\ UNCHANGED <<prefetch, pages, detail_concurrency, listings, failed, results>>
    /\ UNCHANGED <<storeVars, scrollVars, pageVars, geoVars, triggerVars, attrVars, apiVars, migrateVars>>

\* FetchDetail giving the permit back at once, without the sleep, when the
\* fetch failed.
FetchDetailFailedNoDelay(i, failAt) ==
    /\ task[i] = "fetching"
    /\ listings' = [listings EXCEPT ![i] = FetchDetailPageSafe(@, pages[i], failAt)]
    /\ failed' = [failed EXCEPT ![i] = failAt]
    /\ task' = [task EXCEPT ![i] = IF failAt = "none" THEN "sleeping" ELSE "done"]
    /\ semaphore' = (IF failAt = "none" THEN semaphore ELSE semaphore + 1)
    /\ UNCHANGED <<prefetch, pages, detail_concurrency, results>>
    /\ UNCHANGED <<storeVars, scrollVars, pageVars, geoVars, triggerVars, attrVars, apiVars, migrateVars>>

\* await self._fetch_detail_page_safe(listing, browser_context) returns.
FetchDetail(i, failAt) ==
    /\ task[i] = "fetching"
    /\ listings' = [listings EXCEPT ![i] = FetchDetailPageSafe(@, pages[i], failAt)]
    /\ failed' = [failed EXCEPT ![i] = failAt]
    /\ task' = [task EXCEPT ![i] = "sleeping"]
    /\ UNCHANGED <<prefetch, pages, detail_concurrency, semaphore, results>>
    /\ UNCHANGED <<storeVars, scrollVars, pageVars, geoVars, triggerVars, attrVars, apiVars, migrateVars>>

\* The rate-limit sleep ends, the permit is given back and the coroutine
\* returns its listing.
Release(i) ==
    /\ task[i] = "sleeping"
    /\ semaphore' = semaphore + 1
    /\ task' = [task EXCEPT ![i] = "done"]
    /\ UNCHANGED <<prefetch, pages, detail_concurrency, listings, failed, results>>
    /\ UNCHANGED <<storeVars, scrollVars, pageVars, geoVars, triggerVars, attrVars, apiVars, migrateVars>>

\* asyncio.gather returns the coroutines' results in the order of the
\* listings; _fetch_details_parallel returns them as a list.
Gather ==
    /\ results = <<>>
    /\ \A i \in DOMAIN task : task[i] = "done"
    /\ results' = listings
    /\ UNCHANGED <<prefetch, pages, detail_concurrency, listings, semaphore, task, failed>>
    /\ UNCHANGED <<storeVars, scrollVars, pageVars, geoVars, triggerVars, attrVars, apiVars, migrateVars>>

NextEnrich ==
    \/ \E i \in DOMAIN task : Acquire(i)
    \/ \E i \in DOMAIN task, failAt \in FailPoints : FetchDetail(i, failAt)
    \/ \E i \in DOMAIN task : Release(i)
    \/ Gather

SpecEnrich == InitEnrich /\ [][NextEnrich]_vars

\* The event loop runs every coroutine that can run, and every awaited
\* browser call and sleep returns or raises.
SpecEnrichLive == SpecEnrich /\ WF_vars(NextEnrich)

\* ------------------- CraigslistScraper.scrape_batch (SpecScroll)
\* Listings the search offers, numbered in the order the page reveals them.
FeedLen == 25
\* max_listings values: a small limit, and the default.
MaxListingsArgs == {3, 5000}

max_empty_pages == 8
max_scrolls == 200

\* The listings lo..hi of the feed, in page order.
Window(lo, hi) == [k \in 1..(hi - lo + 1) |-> lo + k - 1]

\* What query_selector_all("[data-pid]") may find after the listings 1..n
\* have been collected: nothing, the listing collected last, the next one or
\* two of the feed, or the last with them; with or without a second element
\* for the first of them.
Doms(n) ==
    LET ws == { Window(lo, hi) : lo \in {n, n + 1} \ {0},
                                hi \in {n, n + 1, n + 2} \cap (0..FeedLen) }
    IN  ws \cup { w \o <<w[1]>> : w \in ws \ {<<>>} }

\* The ids of a list not in seen, each once, in list order.
RECURSIVE Unseen(_, _, _)
Unseen(list, seen, out) ==
    IF list = <<>> THEN out
    ELSE IF Head(list) \in seen
         THEN Unseen(Tail(list), seen, out)
         ELSE Unseen(Tail(list), seen \cup {Head(list)}, Append(out, Head(list)))

\* _scrape_page(page): the listings of the current view, one per external id.
ScrapePage(dom) == Unseen(dom, {}, <<>>)

\* scrape_batch, lines 312-317: the listings of the page not seen before.
NewListings(listing_page, seen) == Unseen(listing_page, seen, <<>>)

\* Continue without the test of scroll_count.
ContinueNoSafetyLimit(count, empty, scrolls, limit) ==
    count < limit /\ empty < max_empty_pages

\* The condition of the while loop.
Continue(count, empty, scrolls, limit) ==
    count < limit /\ empty < max_empty_pages /\ scrolls < max_scrolls

\* EmptyPagesAfter never setting the counter back.
EmptyPagesNoReset(empty, new_listings) ==
    IF new_listings # <<>> THEN empty ELSE empty + 1

\* Lines 319-324: empty_pages after an extraction.
EmptyPagesAfter(empty, new_listings) ==
    IF new_listings # <<>> THEN 0 ELSE empty + 1

\* scrape_batch has been called: the page is opened, nothing loaded yet.
InitScroll ==
    /\ StoreInit
    /\ EnrichIdle
    /\ PagesIdle
    /\ GeoIdle
    /\ TriggersIdle
    /\ AttrsIdle
    /\ ApiIdle
    /\ MigrateIdle
    /\ max_listings \in MaxListingsArgs
    /\ all_listings = <<>>
    /\ seen_ids = {}
    /\ empty_pages = 0
    /\ scroll_count = 0
    /\ page_listings = <<>>
    /\ scroll = "goto"

\* Lines 295-306: page.goto(initial_url, timeout=60000) and page.click("body")
\* return, or one of them raises PlaywrightTimeout.  Nothing in scrape_batch,
\* scrape or run_craigslist_scraper catches it: the finally blocks close the
\* page and the context and the exception leaves the scraper.
InitialLoad(timeout) ==
    /\ scroll = "goto"
    /\ scroll' = (IF timeout THEN "raised" ELSE "loop")
    /\ UNCHANGED <<max_listings, all_listings, seen_ids, empty_pages, scroll_count,
                   page_listings>>
    /\ UNCHANGED <<storeVars, enrichVars, pageVars, geoVars, triggerVars, attrVars, apiVars, migrateVars>>

\* One pass of the while loop: extraction, filter, counters, scroll.
ScrollOnce(dom) ==
    /\ scroll = "loop"
    /\ Continue(Len(all_listings), empty_pages, scroll_count, max_listings)
    /\ page_listings' = ScrapePage(dom)
    /\ LET new_listings == NewListings(page_listings', seen_ids)
       IN  /\ seen_ids' = seen_ids \cup { new_listings[k] : k \in DOMAIN new_listings }
           /\ all_listings' = all_listings \o new_listings
           /\ empty_pages' = EmptyPagesAfter(empty_pages, new_listings)
    /\ scroll_count' = scroll_count + 1
    /\ UNCHANGED <<max_listings, scroll>>
    /\ UNCHANGED <<storeVars, enrichVars, pageVars, geoVars, triggerVars, attrVars, apiVars, migrateVars>>

\* The loop condition fails: the page is closed and all_listings goes through
\* _fetch_details_parallel, which returns the same listings, to the caller.
ScrollReturn ==
    /\ scroll = "loop"
    /\ ~Continue(Len(all_listings), empty_pages, scroll_count, max_listings)
    /\ scroll' = "returned"
    /\ UNCHANGED <<max_listings, all_listings, seen_ids, empty_pages, scroll_count,
                   page_listings>>
    /\ UNCHANGED <<storeVars, enrichVars, pageVars, geoVars, triggerVars, attrVars, apiVars, migrateVars>>

NextScroll ==
    \/ \E timeout \in BOOLEAN : InitialLoad(timeout)
    \/ \E dom \in Doms(Cardinality(seen_ids)) : ScrollOnce(dom)
    \/ ScrollReturn

SpecScroll == InitScroll /\ [][NextScroll]_vars

\* Every awaited browser call and sleep of the loop returns or raises.
SpecScrollLive == SpecScroll /\ WF_vars(NextScroll)

\* ----------------------- StreetEasyScraper.scrape (SpecPages)
\* max_pages values.
MaxPagesArgs == {2, 3}
\* External ids of the listings StreetEasy shows.
CardIds == {"A", "B", "C"}
\* The cards of one results page: one or two listings.
CardLists == UNION { [1..n -> CardIds] : n \in 1..2 }

\* scrape has been called and the page opened: the loop is at page 1.
InitPages ==
    /\ StoreInit
    /\ EnrichIdle
    /\ ScrollIdle
    /\ GeoIdle
    /\ TriggersIdle
    /\ AttrsIdle
    /\ ApiIdle
    /\ MigrateIdle
    /\ max_pages \in MaxPagesArgs
    /\ page_num = 1
    /\ se_listings = <<>>
    /\ se_timeouts = {}
    /\ se = "loop"

\* The for loop moves to the next page, or ends after max_pages.
NextPage ==
    /\ page_num' = page_num + 1
    /\ se' = (IF page_num < max_pages THEN "loop" ELSE "returned")

\* Lines 158-163: page.goto times out; the page is skipped.
GotoTimeout ==
    /\ se = "loop"
    /\ se_timeouts' = se_timeouts \cup {page_num}
    /\ NextPage
    /\ UNCHANGED <<max_pages, se_listings>>
    /\ UNCHANGED <<storeVars, enrichVars, scrollVars, geoVars, triggerVars, attrVars, apiVars, migrateVars>>

\* Lines 165-177: wait_for_selector times out, or the page has no cards: break.
NoCards ==
    /\ se = "loop"
    /\ se' = "returned"
    /\ UNCHANGED <<max_pages, page_num, se_listings, se_timeouts>>
    /\ UNCHANGED <<storeVars, enrichVars, scrollVars, geoVars, triggerVars, attrVars, apiVars, migrateVars>>

\* Lines 172-192: the listings of the cards are appended; the loop goes on
\* when the page has a next button.
Cards(cards, next_button) ==
    /\ se = "loop"
    /\ se_listings' = se_listings \o cards
    /\ IF next_button
       THEN NextPage
       ELSE se' = "returned" /\ page_num' = page_num
    /\ UNCHANGED <<max_pages, se_timeouts>>
    /\ UNCHANGED <<storeVars, enrichVars, scrollVars, geoVars, triggerVars, attrVars, apiVars, migrateVars>>

NextPages ==
    \/ GotoTimeout
    \/ NoCards
    \/ \E cards \in CardLists, next_button \in BOOLEAN : Cards(cards, next_button)

SpecPages == InitPages /\ [][NextPages]_vars

\* ------------------------------------- services/geo.py (SpecGeo)
\* Calls into the module that may be made.
MaxGeoCalls == 3
\* Threads that call into the module: the threads of the server's pool
\* (get_neighborhoods_grouped is a plain def) and the scraper's thread.
Callers == {1, 2}
\* Coordinates callers ask about.
Lats == {0, 1}
Lons == {0, 1, 2}

\* A feature of the file.  kind tells what its geometry is: "ok", "null" (no
\* geometry), "malformed" (shape() raises on it) or "invalid" (shape() builds
\* a polygon whose contains() raises).  cells are the points (x, y) inside it.
Feature(name, borough, kind, cells) ==
    [ntaname |-> name, boroname |-> borough, kind |-> kind, cells |-> cells]

FeatureA == Feature("a", "X", "ok", {<<0, 0>>, <<1, 0>>})
FeatureB == Feature("b", "X", "ok", {<<1, 0>>, <<2, 0>>})
FeatureC == Feature("c", "Y", "ok", {<<2, 1>>})

\* The files: three polygons of which the first two overlap, in either order;
\* a malformed geometry in the middle; an invalid polygon and a feature
\* without geometry; a file that cannot be opened or parsed.
GeoFiles ==
    { [readable |-> TRUE, features |-> <<FeatureA, FeatureB, FeatureC>>],
      [readable |-> TRUE, features |-> <<FeatureB, FeatureA, FeatureC>>],
      [readable |-> TRUE,
       features |-> <<FeatureA, Feature("m", "X", "malformed", {}), FeatureC>>],
      [readable |-> TRUE,
       features |-> <<Feature("i", "X", "invalid", {<<1, 0>>}), FeatureB,
                      Feature("n", "Y", "null", {})>>],
      [readable |-> FALSE, features |-> <<>>] }

\* shape(geometry) of a feature.
Shape(feature) == [kind |-> feature.kind, cells |-> feature.cells]

\* The entry _load_neighborhoods appends for a feature.
Entry(feature) == <<feature.ntaname, feature.boroname, Shape(feature)>>

\* Point(x, y) of shapely.
Point(x, y) == <<x, y>>

\* FirstContaining returning the name of the last polygon that contains the
\* point.
RECURSIVE LastContaining(_, _)
LastContaining(list, point) ==
    IF list = <<>> THEN NoName
    ELSE LET entry == list[Len(list)]
         IN  IF entry[3].kind # "invalid" /\ point \in entry[3].cells
             THEN entry[1]
             ELSE LastContaining(SubSeq(list, 1, Len(list) - 1), point)

\* get_neighborhood, the for loop: the name of the first entry whose polygon
\* contains the point; an entry whose contains() raises is passed over.
RECURSIVE FirstContaining(_, _)
FirstContaining(list, point) ==
    IF list = <<>> THEN NoName
    ELSE LET entry == Head(list)
         IN  IF entry[3].kind = "invalid"
             THEN FirstContaining(Tail(list), point)
             ELSE IF point \in entry[3].cells
                  THEN entry[1]
                  ELSE FirstContaining(Tail(list), point)

\* get_neighborhood(lat, lon) after its _load_neighborhoods() call.  Its
\* Optional[str] None is NoName here: callers only test the result for truth.
GetNeighborhood(nbhds, lat, lon) ==
    IF nbhds = <<>> THEN NoName ELSE FirstContaining(nbhds, Point(lon, lat))

\* get_neighborhoods_by_borough() after its _load_neighborhoods() call: the
\* names of each borough (a sorted list of a set, given as the set).
GetNeighborhoodsByBorough(nbhds) ==
    LET boroughs == { nbhds[i][2] : i \in DOMAIN nbhds }
    IN  [b \in boroughs |-> { nbhds[i][1] : i \in { j \in DOMAIN nbhds : nbhds[j][2] = b } }]

\* The module has been imported in a process whose threads have not called it.
InitGeo ==
    /\ StoreInit
    /\ EnrichIdle
    /\ ScrollIdle
    /\ PagesIdle
    /\ TriggersIdle
    /\ AttrsIdle
    /\ ApiIdle
    /\ MigrateIdle
    /\ geojson \in GeoFiles
    /\ _neighborhoods = <<>>
    /\ _loaded = FALSE
    /\ caller = [t \in Callers |-> IdleCaller]
    /\ geo_calls = 0

\* A thread calls get_neighborhood(lat, lon).
CallGetNeighborhood(t, lat, lon) ==
    /\ caller[t].pc \in {"idle", "done"}
    /\ geo_calls < MaxGeoCalls
    /\ geo_calls' = geo_calls + 1
    /\ caller' = [caller EXCEPT ![t] = [pc |-> "check", op |-> "get_neighborhood",
                                        lat |-> lat, lon |-> lon, idx |-> 0,
                                        ret |-> ""]]
    /\ UNCHANGED <<geojson, _neighborhoods, _loaded>>
    /\ UNCHANGED <<storeVars, enrichVars, scrollVars, pageVars, triggerVars, attrVars, apiVars, migrateVars>>

\* A thread calls get_neighborhoods_by_borough().
CallGetNeighborhoodsByBorough(t) ==
    /\ caller[t].pc \in {"idle", "done"}
    /\ geo_calls < MaxGeoCalls
    /\ geo_calls' = geo_calls + 1
    /\ caller' = [caller EXCEPT ![t] = [IdleCaller EXCEPT
                                          !.pc = "check",
                                          !.op = "get_neighborhoods_by_borough"]]
    /\ UNCHANGED <<geojson, _neighborhoods, _loaded>>
    /\ UNCHANGED <<storeVars, enrichVars, scrollVars, pageVars, triggerVars, attrVars, apiVars, migrateVars>>

\* _load_neighborhoods, lines 15-28: the flag is tested; when it is not set
\* the file is opened and parsed, which raises for an unreadable file (the
\* except clause prints and the function returns).
CheckLoaded(t) ==
    /\ caller[t].pc = "check"
    /\ caller' = [caller EXCEPT ![t] =
                     IF _loaded \/ ~geojson.readable
                     THEN [@ EXCEPT !.pc = "read"]
                     ELSE [@ EXCEPT !.pc = "load", !.idx = 1]]
    /\ UNCHANGED <<geojson, _neighborhoods, _loaded, geo_calls>>
    /\ UNCHANGED <<storeVars, enrichVars, scrollVars, pageVars, triggerVars, attrVars, apiVars, migrateVars>>

\* _load_neighborhoods, lines 30-38: one pass of the loop over the features.
\* A feature without geometry is passed over; shape() raising on a malformed
\* geometry ends the function in its except clause, the flag not set.
LoadFeature(t) ==
    /\ caller[t].pc = "load"
    /\ caller[t].idx <= Len(geojson.features)
    /\ LET feature == geojson.features[caller[t].idx]
       IN  /\ _neighborhoods' = (IF feature.kind \in {"null", "malformed"}
                                 THEN _neighborhoods
                                 ELSE Append(_neighborhoods, Entry(feature)))
           /\ caller' = [caller EXCEPT ![t] =
                            IF feature.kind = "malformed"
                            THEN [@ EXCEPT !.pc = "read"]
                            ELSE [@ EXCEPT !.idx = @ + 1]]
    /\ UNCHANGED <<geojson, _loaded, geo_calls>>
    /\ UNCHANGED <<storeVars, enrichVars, scrollVars, pageVars, triggerVars, attrVars, apiVars, migrateVars>>

\* _load_neighborhoods, line 40: the loop is over, the flag is set.
LoadDone(t) ==
    /\ caller[t].pc = "load"
    /\ caller[t].idx > Len(geojson.features)
    /\ _loaded' = TRUE
    /\ caller' = [caller EXCEPT ![t].pc = "read"]
    /\ UNCHANGED <<geojson, _neighborhoods, geo_calls>>
    /\ UNCHANGED <<storeVars, enrichVars, scrollVars, pageVars, triggerVars, attrVars, apiVars, migrateVars>>

\* The caller reads the list and returns.
Lookup(t) ==
    /\ caller[t].pc = "read"
    /\ LET c == caller[t]
       IN  caller' = [caller EXCEPT ![t] =
                        [c EXCEPT !.pc = "done",
                                  !.ret = IF c.op = "get_neighborhood"
                                          THEN GetNeighborhood(_neighborhoods, c.lat, c.lon)
                                          ELSE GetNeighborhoodsByBorough(_neighborhoods)]]
    /\ UNCHANGED <<geojson, _neighborhoods, _loaded, geo_calls>>
    /\ UNCHANGED <<storeVars, enrichVars, scrollVars, pageVars, triggerVars, attrVars, apiVars, migrateVars>>

NextGeo ==
    \/ \E t \in Callers, lat \in Lats, lon \in Lons : CallGetNeighborhood(t, lat, lon)
    \/ \E t \in Callers : CallGetNeighborhoodsByBorough(t)
    \/ \E t \in Callers : CheckLoaded(t)
    \/ \E t \in Callers : LoadFeature(t)
    \/ \E t \in Callers : LoadDone(t)
    \/ \E t \in Callers : Lookup(t)

SpecGeo == InitGeo /\ [][NextGeo]_vars

\* ------------- _fetch_detail_page, laundry attributes (SpecLaundry)
\* ".attrgroup span" elements of a detail page.
MaxAttrs == 3

\* Texts of attribute elements, lowercased.
AttrTexts == {"w/d in unit", "laundry in bldg", "no laundry on site", "no laundry",
             "w/d hookups"}

\* The keywords the loop looks for, by the value they stand for.
Keywords ==
    [in_unit |-> {"w/d in unit", "washer/dryer in unit"},
     building |-> {"laundry in bldg", "laundry on site"},
     none |-> {"no laundry"}]

\* The keywords that are substrings of a text.
Substrings(text) ==
    CASE text = "w/d in unit" -> {"w/d in unit"}
      [] text = "laundry in bldg" -> {"laundry in bldg"}
      [] text = "no laundry on site" -> {"laundry on site", "no laundry"}
      [] text = "no laundry" -> {"no laundry"}
      [] OTHER -> {}

\* `keyword in text` for one of the keywords of a value.
Matches(text, value) == Substrings(text) \cap Keywords[value] # {}

\* The if / elif chain of the loop body for one text: the value it assigns,
\* Unset when no branch is taken.
ClassifyAttr(text) ==
    IF Matches(text, "in_unit") THEN "in_unit"
    ELSE IF Matches(text, "building") THEN "building"
    ELSE IF Matches(text, "none") THEN "none"
    ELSE Unset

\* _fetch_detail_page has queried the attribute elements of a page; the
\* listing has no laundry_type yet.
InitLaundry ==
    /\ StoreInit
    /\ EnrichIdle
    /\ ScrollIdle
    /\ PagesIdle
    /\ GeoIdle
    /\ TriggersIdle
    /\ attr_elems \in UNION { [1..n -> AttrTexts] : n \in 0..MaxAttrs }
    /\ attr_index = 1
    /\ laundry = Unset
    /\ ApiIdle
    /\ MigrateIdle

\* One pass of the for loop: a text that matches assigns laundry_type and
\* breaks, any other text leaves it and the loop goes on.
ReadAttr ==
    /\ attr_index \in DOMAIN attr_elems
    /\ LET value == ClassifyAttr(attr_elems[attr_index])
       IN  IF value # Unset
           THEN /\ laundry' = value
                /\ attr_index' = Len(attr_elems) + 1
           ELSE /\ laundry' = laundry
                /\ attr_index' = attr_index + 1
    /\ UNCHANGED attr_elems
    /\ UNCHANGED <<storeVars, enrichVars, scrollVars, pageVars, geoVars, triggerVars, apiVars, migrateVars>>

NextLaundry == ReadAttr

SpecLaundry == InitLaundry /\ [][NextLaundry]_vars

\* ================================================================ claims
\* Rows of the listings table with the same (source, external_id).
SameKey(i, j) == KeyOf(store[i]) = KeyOf(store[j])

\* C1: after every reconcile, off-market and reactivation call, in any order,
\* every stored listing is inactive exactly when its deactivated_at is set.
ActiveIffNotDeactivated ==
    \A i \in DOMAIN store :
        (~store[i].is_active) <=> (store[i].deactivated_at # None)

\* A reactivation has just succeeded while another listing is off-market.
ReactivatedBesideOffmarket ==
    /\ last.op = "reactivate"
    /\ last.ret = TRUE
    /\ \E i \in DOMAIN store : ~store[i].is_active /\ store[i].deactivated_at # None
    /\ \E i \in DOMAIN store : store[i].is_active /\ store[i].first_seen < now - 1

\* C4: mark_offmarket_listings deactivates exactly the active listings of the
\* source whose external_id is in active_before - scraped_ids, stamping
\* deactivated_at = now and last_scrape_run_id = run, and returns how many
\* listings it changed.
MarkOffmarketExact ==
    [][ last'.op = "mark" =>
          LET a == last'.args
              gone == a.active_before \ a.scraped_ids
              changed == { i \in DOMAIN store : store'[i] # store[i] }
          IN  /\ DOMAIN store' = DOMAIN store
              /\ \A i \in DOMAIN store :
                    IF /\ store[i].source = a.source
                       /\ store[i].external_id \in gone
                       /\ store[i].is_active
                    THEN /\ ~store'[i].is_active
                         /\ store'[i].deactivated_at = now'
                         /\ store'[i].last_scrape_run_id = RunOf(now')
                    ELSE store'[i] = store[i]
              /\ last'.ret = Cardinality(changed) ]_vars

\* A call has deactivated a listing while a listing of another source with a
\* disappeared external_id stays active.
MarkedButOtherSourceKept ==
    /\ last.op = "mark"
    /\ last.ret >= 1
    /\ \E i \in DOMAIN store :
          /\ store[i].source # last.args.source
          /\ store[i].external_id \in last.args.active_before \ last.args.scraped_ids
          /\ store[i].is_active

\* C5: the store holds at most one listing per (source, external_id), also
\* when a key occurs more than once inside one batch.
UniqueKeys ==
    \A i, j \in DOMAIN store : SameKey(i, j) => i = j

\* C8: a second mark_offmarket_listings call with the same source,
\* active_before and scraped_ids changes no listing and returns 0.
MarkOffmarketIdempotent ==
    [][ (last'.op = "mark" /\ last'.again) =>
          (store' = store /\ last'.ret = 0) ]_vars

\* The second of two equal calls has returned, the first having deactivated a
\* listing one tick earlier.
MarkedTwice ==
    /\ last.op = "mark"
    /\ last.again
    /\ \E i \in DOMAIN store :
          /\ store[i].source = last.args.source
          /\ store[i].external_id \in last.args.active_before \ last.args.scraped_ids
          /\ ~store[i].is_active
          /\ store[i].deactivated_at = now - 1

\* C9: reactivate_listing returns False and changes nothing when no listing
\* has the key or the listing is active; otherwise it returns True having set
\* is_active, cleared deactivated_at, refreshed last_seen and stamped the run
\* id on that one listing only.
ReactivateContract ==
    [][ last'.op = "reactivate" =>
          LET a == last'.args
              found == Matching(store, a.source, a.external_id)
          IN  /\ (\A i \in found : store[i].is_active) => (last'.ret = FALSE)
              /\ (found # {} /\ \A i \in found : ~store[i].is_active)
                    => (last'.ret = TRUE)
              /\ (last'.ret = FALSE) => (store' = store)
              /\ (last'.ret = TRUE) =>
                    \E i \in found :
                       /\ ~store[i].is_active
                       /\ store' = [store EXCEPT ![i] =
                                      [store[i] EXCEPT !.is_active = TRUE,
                                                       !.deactivated_at = None,
                                                       !.last_seen = now',
                                                       !.last_scrape_run_id = RunOf(now')]] ]_vars

\* A reactivation has returned True and left another off-market listing alone.
ReactivatedOneOnly ==
    /\ last.op = "reactivate"
    /\ last.ret = TRUE
    /\ \E i \in DOMAIN store :
          /\ store[i].source = last.args.source
          /\ store[i].external_id = last.args.external_id
          /\ store[i].is_active
          /\ store[i].last_seen = now
    /\ \E j \in DOMAIN store : ~store[j].is_active /\ store[j].last_seen < now

\* C10: no reconcile, off-market, stale-marking or reactivation call removes
\* a stored listing or changes its key.
NeverDeletes ==
    [][ \A i \in DOMAIN store :
           i \in DOMAIN store' /\ KeyOf(store'[i]) = KeyOf(store[i]) ]_vars

\* Stale marking has deactivated a listing of a store of two or more.
StaleMarkedKept ==
    /\ last.op = "stale"
    /\ last.ret >= 1
    /\ Len(store) >= 2

\* Keys of the items of a batch.
BatchKeys(batch) == { <<batch[k].source, batch[k].external_id>> : k \in DOMAIN batch }

\* C6 as stated: reconciling an identical batch a second time leaves the
\* store unchanged and returns new = 0.
SecondSaveChangesNothing ==
    [][ (last'.op = "save" /\ last'.again /\ ~last'.ret.raised) =>
          (store' = store /\ last'.ret.new = 0) ]_vars

\* C6 as amended: the second reconcile of an identical batch returns new = 0
\* and adds or removes no listing; it leaves key and first_seen of every
\* listing and every listing whose key is not in the batch unchanged; and when
\* the store holds one listing per key it changes nothing but last_seen and
\* last_scrape_run_id of the listings of the batch, set to that call's time
\* and run id.
SecondSaveRefreshesOnly ==
    [][ (last'.op = "save" /\ last'.again /\ ~last'.ret.raised) =>
          LET keys == BatchKeys(last'.args.batch)
          IN  /\ last'.ret.new = 0
              /\ last'.ret.updated = Len(last'.args.batch)
              /\ DOMAIN store' = DOMAIN store
              /\ \A i \in DOMAIN store :
                    /\ KeyOf(store'[i]) = KeyOf(store[i])
                    /\ store'[i].first_seen = store[i].first_seen
                    /\ KeyOf(store[i]) \notin keys => store'[i] = store[i]
              /\ UniqueKeys =>
                    \A i \in DOMAIN store :
                       KeyOf(store[i]) \in keys =>
                          store'[i] = [store[i] EXCEPT !.last_seen = now',
                                                       !.last_scrape_run_id = RunOf(now')] ]_vars

\* The second reconcile of a batch has returned: it updated a listing that
\* holds images although the item scraped for it has none.
SavedTwice ==
    /\ last.op = "save"
    /\ last.again
    /\ ~last.ret.raised
    /\ UniqueKeys
    /\ \E i \in DOMAIN store :
          /\ KeyOf(store[i]) \in BatchKeys(last.args.batch)
          /\ store[i].images # <<>>
          /\ store[i].first_seen < store[i].last_seen

\* The off-market step of the scheduled run in flight is being taken.
OffmarketStep == sched.pc = "offmarket" /\ sched'.pc = "idle"

\* Rows the step deactivates.
Deactivated == { i \in DOMAIN store : store[i].is_active /\ ~store'[i].is_active }

FirstSeenAndKeyImmutable ==
    [][ /\ \A i \in DOMAIN store :
              /\ i \in DOMAIN store'
              /\ KeyOf(store'[i]) = KeyOf(store[i])
              /\ store'[i].first_seen = store[i].first_seen
        /\ \A i \in DOMAIN store' \ DOMAIN store :
              store'[i].first_seen = now' ]_vars

\* A listing created two calls ago has just been reactivated.
ReactivatedKeepsFirstSeen ==
    /\ last.op = "reactivate"
    /\ last.ret = TRUE
    /\ \E i \in Matching(store, last.args.source, last.args.external_id) :
          /\ store[i].first_seen = now - 2
          /\ store[i].last_seen = now

\* Items of a batch whose key no stored listing has.
AbsentItems(batch, rows) ==
    { k \in DOMAIN batch : <<batch[k].source, batch[k].external_id>> \notin Keys(rows) }

\* C12: a reconcile call that returns gives back the set of the external ids
\* of its batch, new = the number of batch items whose key the store did not
\* hold when the call began, updated = the number whose key it held, so that
\* new + updated does not exceed the number of items; and every ScrapeRun row
\* has listings_new + listings_updated <= listings_found.
ReconcileCounts ==
    [][ /\ (last'.op = "save" /\ ~last'.ret.raised) =>
              LET batch == last'.args.batch
                  absent == AbsentItems(batch, store)
              IN  /\ last'.ret.ids = { batch[k].external_id : k \in DOMAIN batch }
                  /\ last'.ret.new = Cardinality(absent)
                  /\ last'.ret.updated = Cardinality(DOMAIN batch \ absent)
                  /\ last'.ret.new + last'.ret.updated <= Len(batch)
        /\ (sched.pc = "scrape" /\ sched'.pc = "offmarket") =>
              LET r == sched'.result
                  held == { id \in r.scraped_external_ids :
                              <<sched.source, id>> \in Keys(store) }
              IN  /\ r.updated = Cardinality(held)
                  /\ r.new = Cardinality(r.scraped_external_ids \ held)
                  /\ r.new + r.updated <= r.scraped
        /\ \A r \in DOMAIN runs' :
              runs'[r].listings_new + runs'[r].listings_updated
                 <= runs'[r].listings_found ]_vars

\* A reconcile call has returned having inserted one item and updated another.
SavedNewAndUpdated ==
    /\ last.op = "save"
    /\ ~last.ret.raised
    /\ last.ret.new = 1
    /\ last.ret.updated = 1
    /\ Cardinality(last.ret.ids) = 2

\* Laundry values the detail fetch resolves.
LaundryTypes == {"in_unit", "building", "none"}

\* C13: reconcile updating the one stored listing of an item's key always
\* overwrites price, last_seen, is_active (true), deactivated_at (null) and
\* last_scrape_run_id; it leaves images unchanged when the item has none,
\* coordinates unchanged when the item has none, neighborhood unchanged when
\* the item's was not resolved from coordinates, laundry_type unchanged when
\* none was resolved; and it leaves title and first_seen unchanged.
UpdateOverwritesAndKeeps ==
    [][ (/\ last'.op = "save"
         /\ ~last'.ret.raised
         /\ UniqueKeys
         /\ Cardinality(BatchKeys(last'.args.batch)) = Len(last'.args.batch)) =>
          \A k \in DOMAIN last'.args.batch :
             LET item == last'.args.batch[k]
             IN  \A i \in Matching(store, item.source, item.external_id) :
                    /\ store'[i].price = item.price
                    /\ store'[i].last_seen = now'
                    /\ store'[i].is_active
                    /\ store'[i].deactivated_at = None
                    /\ store'[i].last_scrape_run_id = RunOf(now')
                    /\ item.images = <<>> => store'[i].images = store[i].images
                    /\ item.latitude = None => store'[i].latitude = store[i].latitude
                    /\ item.longitude = None => store'[i].longitude = store[i].longitude
                    /\ item.neighborhood # NtaName =>
                          /\ store'[i].neighborhood = store[i].neighborhood
                          /\ store'[i].neighborhood_nta = store[i].neighborhood_nta
                    /\ item.laundry_type \notin LaundryTypes =>
                          store'[i].laundry_type = store[i].laundry_type
                    /\ store'[i].title = store[i].title
                    /\ store'[i].first_seen = store[i].first_seen ]_vars

\* Coroutines inside _fetch_detail_page_safe.
InFlight == { i \in DOMAIN task : task[i] = "fetching" }

\* C14: at every moment of a detail enrichment with concurrency limit C, at
\* most C detail-page fetches are in flight, for any number of listings and
\* any interleaving of completions and failures.
AtMostCInFlight == Cardinality(InFlight) <= detail_concurrency

\* As many fetches as the limit allows are in flight while a coroutine waits
\* for a permit and an earlier fetch has failed.
FullPoolAfterFailure ==
    /\ Cardinality(InFlight) = detail_concurrency
    /\ \E i \in DOMAIN task : task[i] = "waiting"
    /\ \E i \in DOMAIN task : task[i] = "done" /\ failed[i] # "none"

\* _fetch_details_parallel has returned.
Returned == results # <<>>

FailedFetchLeavesListingUnchanged ==
    \A i \in DOMAIN failed : failed[i] # "none" => listings[i] = prefetch[i]

\* C16 as amended: a listing whose detail fetch failed keeps the pre-fetch
\* value of every field whose step had not completed when the fetch failed
\* (all fields when the page could not be opened or loaded, laundry_type
\* always); the fields of the steps completed before keep what those steps
\* assigned, and a listing that got coordinates has its neighborhood resolved
\* from them.
FailedFetchKeepsLaterFields ==
    \A i \in DOMAIN failed :
       failed[i] # "none" =>
          LET f == failed[i]
              l == listings[i]
              c == prefetch[i]
              pg == pages[i]
              gotMap == Completed("map", f) /\ pg.latitude # None /\ pg.longitude # None
          IN  /\ l.external_id = c.external_id
              /\ f \in {"new_page", "goto", "map"} => l = c
              /\ l.latitude = (IF gotMap THEN pg.latitude ELSE c.latitude)
              /\ l.longitude = (IF gotMap THEN pg.longitude ELSE c.longitude)
              /\ l.images = (IF Completed("gallery", f) /\ pg.images # <<>>
                             THEN pg.images ELSE c.images)
              /\ l.address = (IF Completed("address", f) /\ pg.address # NoAddress
                              THEN pg.address ELSE c.address)
              /\ l.laundry_type = c.laundry_type
              /\ l.neighborhood = (IF gotMap /\ pg.nta # NoName
                                   THEN pg.nta ELSE c.neighborhood)

\* A fetch raised while reading the attributes: the listing has the page's
\* coordinates and gallery and still no laundry_type.
FetchFailedAfterGallery ==
    \E i \in DOMAIN failed :
       /\ failed[i] = "attrs"
       /\ listings[i].latitude # None
       /\ listings[i].images = <<"img">>
       /\ listings[i].neighborhood = NtaName
       /\ listings[i].laundry_type = Unset

\* A pass of the while loop of scrape_batch is being made.
LoadStep == scroll = "loop" /\ scroll_count' = scroll_count + 1

\* scrape_batch leaves the while loop.
LoopExit == scroll = "loop" /\ scroll' = "returned"

\* C17: the scroll loop ends; it makes a further load only while the
\* collected count is below max_listings, fewer than max_empty_pages loads in
\* a row were empty and fewer than max_scrolls loads were made, and leaves
\* the loop as soon as one of the three is reached; it never makes more than
\* max_scrolls loads.
LoopTerminates ==
    /\ [](scroll_count <= max_scrolls)
    /\ [][ LoadStep => /\ Len(all_listings) < max_listings
                       /\ empty_pages < max_empty_pages
                       /\ scroll_count < max_scrolls ]_vars
    /\ [][ LoopExit => \/ Len(all_listings) >= max_listings
                       \/ empty_pages >= max_empty_pages
                       \/ scroll_count >= max_scrolls ]_vars
    /\ <>(scroll \in {"returned", "raised"})

\* The loop has ended at the safety limit, neither of the other two limits
\* reached.
StoppedAtSafetyLimit ==
    /\ scroll = "returned"
    /\ scroll_count = max_scrolls
    /\ empty_pages < max_empty_pages
    /\ Len(all_listings) < max_listings

\* The extraction of the pass being made holds a listing not seen before.
Fresh == \E k \in DOMAIN page_listings' : page_listings'[k] \notin seen_ids

\* C18: empty_pages counts the loads in a row that showed no listing not seen
\* before: a load that shows one sets it to zero, any other load adds one, and
\* no load is made once it has reached max_empty_pages, so that a source
\* that has stopped producing ends the loop within max_empty_pages loads.
ConsecutiveEmptyCounter ==
    [][ LoadStep => /\ empty_pages < max_empty_pages
                    /\ Fresh => empty_pages' = 0
                    /\ ~Fresh => empty_pages' = empty_pages + 1 ]_vars

\* The source produced a listing in each of the first four loads and none
\* afterwards: the loop has ended after max_empty_pages further loads, far
\* from the safety limit.
StoppedAfterEmptyLoads ==
    /\ scroll = "returned"
    /\ Len(all_listings) = 4
    /\ empty_pages = max_empty_pages
    /\ scroll_count = 4 + max_empty_pages
    /\ scroll_count < max_scrolls

\* No two elements of the list are equal.
Distinct(list) == \A i, j \in DOMAIN list : list[i] = list[j] => i = j

\* C19: the list a pagination driver returns (scrape_batch, StreetEasy's
\* scrape) holds no external id twice, whatever the loads have in common.
NoDuplicateCandidates ==
    /\ scroll = "returned" => Distinct(all_listings)
    /\ se = "returned" => Distinct(se_listings)

\* C20: the timeout of one load action does not end the scrape: no
\* PlaywrightTimeout of a load leaves the pagination driver.
LoadTimeoutNotFatal == scroll # "raised"

\* C21: scrape_batch never returns more than max_listings listings, whatever
\* number of new listings one load shows.
NeverMoreThanMaxListings ==
    scroll = "returned" => Len(all_listings) <= max_listings

\* The smallest element of a non-empty set of integers.
Min(set) == CHOOSE x \in set : \A y \in set : x <= y

\* The features of the file that get loaded: those before the first malformed
\* geometry, none of an unreadable file.
LoadOrder(file) ==
    LET f == file.features
        bad == { i \in DOMAIN f : f[i].kind = "malformed" }
    IN  IF ~file.readable THEN <<>>
        ELSE IF bad = {} THEN f ELSE SubSeq(f, 1, Min(bad) - 1)

\* C22: get_neighborhood(lat, lon) returns the name of the first polygon, in
\* load order, whose contains() holds for the point (lon, lat), and none when
\* there is no such polygon; for a point inside two overlapping polygons that
\* is the one loaded first; the result depends on the file and the point
\* only, so that every call with the same point returns the same.
ClassifyFirstInLoadOrder ==
    \A t \in DOMAIN caller :
       (caller[t].pc = "done" /\ caller[t].op = "get_neighborhood") =>
          LET f == LoadOrder(geojson)
              hits == { i \in DOMAIN f : /\ f[i].kind = "ok"
                                         /\ <<caller[t].lon, caller[t].lat>> \in f[i].cells }
          IN  caller[t].ret = (IF hits = {} THEN NoName ELSE f[Min(hits)].ntaname)

\* Two threads have asked about the point inside both of the first two
\* polygons of the file, one of them for the second time: both were given
\* the name of the polygon loaded first.
OverlapResolvedToFirstLoaded ==
    /\ geojson.readable
    /\ geojson.features[1] = FeatureB
    /\ geo_calls >= 3
    /\ \A t \in DOMAIN caller :
          /\ caller[t].pc = "done"
          /\ caller[t].op = "get_neighborhood"
          /\ caller[t].lat = 0
          /\ caller[t].lon = 1
          /\ caller[t].ret = "b"

\* The list holds some of the polygons of the file and not all of them.
PartlyPopulated ==
    /\ _neighborhoods # <<>>
    /\ \E i \in DOMAIN geojson.features :
          /\ geojson.features[i].kind # "null"
          /\ \A j \in DOMAIN _neighborhoods :
                _neighborhoods[j][1] # geojson.features[i].ntaname

\* C23: the polygons are loaded once per process: with concurrent first
\* callers, and after a load that failed part-way, the list never holds a
\* polygon twice and no caller reads a partly populated list.
LoadedOnceNeverPartial ==
    /\ \A i, j \in DOMAIN _neighborhoods :
          _neighborhoods[i] = _neighborhoods[j] => i = j
    /\ \A t \in DOMAIN caller : caller[t].pc = "read" => ~PartlyPopulated

\* The scheduled run in flight ends at the step being taken, its scrape
\* phase not left before.
ScrapePhaseEnds == sched.pc = "scrape" /\ sched'.pc = "idle"

OneRunningRunPerSource ==
    \A i, j \in DOMAIN runs :
       (/\ runs[i].status = "running"
        /\ runs[j].status = "running"
        /\ runs[i].source = runs[j].source) => i = j

\* C29: after the detail fetch of a listing, its neighborhood is the name
\* get_neighborhood gives for its coordinates when it has coordinates and
\* get_neighborhood gives a name, and the text of the results page, unchanged,
\* when it has no coordinates or get_neighborhood gives none.
GeoNameSupersedesRawText ==
    \A i \in DOMAIN task :
       task[i] \in {"sleeping", "done"} =>
          LET l == listings[i]
          IN  l.neighborhood =
                 (IF l.latitude # None /\ l.longitude # None /\ pages[i].nta # NoName
                  THEN pages[i].nta
                  ELSE prefetch[i].neighborhood)

\* Three listings have been returned, every fetch having succeeded: one with
\* the name resolved from its coordinates, one with coordinates no polygon
\* contains and one without coordinates, both with the text of the results
\* page.
ResolvedAndRawReturned ==
    /\ Returned
    /\ \A i \in DOMAIN failed : failed[i] = "none"
    /\ \E i \in DOMAIN results :
          results[i].latitude # None /\ results[i].neighborhood = NtaName
    /\ \E i \in DOMAIN results :
          results[i].latitude # None /\ results[i].neighborhood = RawName
    /\ \E i \in DOMAIN results :
          results[i].latitude = None /\ results[i].neighborhood = RawName

\* Some attribute text of the page matches a keyword of the value.
AnyMatches(value) == \E k \in DOMAIN attr_elems : Matches(attr_elems[k], value)

\* C30: when the loop over the attributes has ended, laundry_type is in_unit
\* if any attribute text matches an in-unit keyword, otherwise building if
\* any matches a building keyword, otherwise none if any matches the
\* no-laundry keyword, otherwise not set, in whatever order the attributes
\* stand on the page.
LaundryByPriority ==
    attr_index > Len(attr_elems) =>
       laundry = (IF AnyMatches("in_unit") THEN "in_unit"
                  ELSE IF AnyMatches("building") THEN "building"
                  ELSE IF AnyMatches("none") THEN "none"
                  ELSE Unset)

\* C31: reconcile accepts every scraped listing whose laundry_type is
\* unresolved (never set by enrichment): the call does not raise, and every
\* such item is afterwards in the store, inserted with no laundry_type or
\* updated with the stored laundry_type unchanged.
UnresolvedLaundryAccepted ==
    [][ (/\ last'.op = "save"
         /\ \E k \in DOMAIN last'.args.batch :
               last'.args.batch[k].laundry_type = Unset) =>
          /\ ~last'.ret.raised
          /\ \A k \in DOMAIN last'.args.batch :
                LET item == last'.args.batch[k]
                IN  item.laundry_type = Unset =>
                       /\ Matching(store', item.source, item.external_id) # {}
                       /\ \A i \in Matching(store, item.source, item.external_id) :
                             store'[i].laundry_type = store[i].laundry_type ]_vars

MarkOffmarketFrame ==
    [][ last'.op = "mark" =>
          LET a == last'.args
              gone == a.active_before \ a.scraped_ids
          IN  /\ DOMAIN store' = DOMAIN store
              /\ \A i \in DOMAIN store :
                    /\ (store[i].source # a.source \/ store[i].external_id \notin gone)
                          => store'[i] = store[i]
                    /\ [store'[i] EXCEPT !.is_active = store[i].is_active,
                                         !.deactivated_at = store[i].deactivated_at,
                                         !.last_scrape_run_id = store[i].last_scrape_run_id]
                          = store[i] ]_vars

\* Coroutines holding a permit: fetching, or in the sleep that follows.
Holding == { i \in DOMAIN task : task[i] \in {"fetching", "sleeping"} }

NtaOnlyFromGeoLookup ==
    \A i \in DOMAIN store : store[i].neighborhood_nta \in {NtaName, NoName}

\* C36: every scheduled run leaves status running: whichever step fails (the
\* write that records the failure included), no ScrapeRun created by
\* run_scheduled_scrape is in status running once the function has returned
\* or raised, so the only running row is that of the run in flight.
NoRunLeftRunning ==
    \A r \in DOMAIN runs :
       runs[r].status = "running" => (sched.pc # "idle" /\ sched.id = r)

\* ------------------------------------------ api/scraper.py (SpecApi)
\* Requests the clients make in all.
MaxApiCalls == 3

Clients == {1, 2}

\* What the site shows to one scrape: its result pages in order (the
\* external ids on each) and the page whose load fails (None: every page
\* loads).
Feeds ==
    { [pages |-> p, fail_at |-> k] :
        p \in { <<>>, << <<"A">> >>, << <<"A">>, <<"B">> >> }, k \in {None, 0, 1} }

\* A listing as StreetEasyScraper builds it from a card: no coordinates, no
\* gallery and no laundry_type attribute.
StreetEasyListing(id) ==
    ScrapedListing(id, "streeteasy", "t1", 1000, RawName, <<>>, None, None, Unset)

\* run_streeteasy_scraper: the cards of the pages that loaded, in order (a
\* page whose load times out is passed over).
RECURSIVE StreetEasyScraped(_, _)
StreetEasyScraped(feed, n) ==
    IF n > Len(feed.pages)
    THEN <<>>
    ELSE (IF feed.fail_at = n - 1
          THEN <<>>
          ELSE [k \in DOMAIN feed.pages[n] |-> StreetEasyListing(feed.pages[n][k])])
         \o StreetEasyScraped(feed, n + 1)

\* The exception leaving run_scrape_and_store.
Raised(rows) == [raised |-> TRUE, rows |-> rows, result |-> <<>>]

\* run_scrape_and_store(db, source, ...): the possible outcomes.  The
\* streeteasy branch saves what the scraper returned in one call.  The
\* craigslist branch starts the browser, opens a page and calls
\* scraper.scrape_single_page, a method CraigslistScraper does not have: the
\* AttributeError leaves the loop in its first pass, before anything was
\* scraped or saved.  Any other source gets {"error": ...}.
RunScrapeAndStore(rows, src, feed, run, t) ==
    IF src = "streeteasy"
    THEN LET scraped == StreetEasyScraped(feed, 1)
         IN  { IF out.raised
               THEN Raised(rows)
               ELSE [raised |-> FALSE, rows |-> out.rows,
                     result |-> [scraped |-> Len(scraped), new |-> out.new,
                                 updated |-> out.updated,
                                 scraped_external_ids |-> out.ids]] :
                 out \in SaveListingsToDb(rows, scraped, run, t) }
    ELSE IF src = "craigslist"
    THEN { Raised(rows) }
    ELSE { [raised |-> FALSE, rows |-> rows,
            result |-> [error |-> "Unknown source"]] }

\* The router with two clients, no request made yet.
InitApi ==
    /\ StoreInit
    /\ EnrichIdle
    /\ ScrollIdle
    /\ PagesIdle
    /\ GeoIdle
    /\ TriggersIdle
    /\ AttrsIdle
    /\ scrape_status = [running |-> FALSE, last_result |-> "None"]
    /\ request = [c \in Clients |-> NoRequest]
    /\ api_calls = 0
    /\ MigrateIdle

\* POST /run, trigger_scrape up to its first suspension: the flag is tested
\* and run_scrape_and_store is called.  For a source without a scraper the
\* call returns without awaiting anything, so the response follows at once;
\* for the others the coroutine is suspended in the scrape.
TriggerScrape(c, src) ==
    /\ api_calls < MaxApiCalls
    /\ request[c].pc # "scraping"
    /\ api_calls' = api_calls + 1
    /\ request' = [request EXCEPT ![c] =
          IF scrape_status["running"]
          THEN [pc |-> "done", source |-> src, feed |-> NoFeed,
                response |-> "Scrape already in progress", result |-> <<>>]
          ELSE IF KnownSource(src)
          THEN [pc |-> "scraping", source |-> src, feed |-> NoFeed,
                response |-> "none", result |-> <<>>]
          ELSE [pc |-> "done", source |-> src, feed |-> NoFeed,
                response |-> "Scrape completed",
                result |-> [error |-> "Unknown source"]]]
    /\ UNCHANGED scrape_status
    /\ UNCHANGED <<storeVars, enrichVars, scrollVars, pageVars, geoVars, triggerVars,
                   attrVars, migrateVars>>

\* trigger_scrape resumed: run_scrape_and_store returns or raises, and the
\* response is sent.
ScrapeReturns(c, feed) ==
    /\ request[c].pc = "scraping"
    /\ now' = now + 1
    /\ \E out \in RunScrapeAndStore(store, request[c].source, feed, None, now + 1) :
          /\ store' = out.rows
          /\ request' = [request EXCEPT ![c] =
                [pc |-> "done", source |-> @.source, feed |-> feed,
                 response |-> IF out.raised THEN "Internal Server Error"
                              ELSE "Scrape completed",
                 result |-> out.result]]
    /\ UNCHANGED <<last, runs, sched>>
    /\ UNCHANGED <<scrape_status, api_calls>>
    /\ UNCHANGED <<enrichVars, scrollVars, pageVars, geoVars, triggerVars, attrVars,
                   migrateVars>>

\* GET /status, scrape_status_endpoint: the dict is returned as it is.
ScrapeStatusEndpoint(c) ==
    /\ api_calls < MaxApiCalls
    /\ request[c].pc # "scraping"
    /\ api_calls' = api_calls + 1
    /\ request' = [request EXCEPT ![c] =
          [pc |-> "done", source |-> "", feed |-> NoFeed,
           response |-> "status", result |-> scrape_status]]
    /\ UNCHANGED scrape_status
    /\ UNCHANGED <<storeVars, enrichVars, scrollVars, pageVars, geoVars, triggerVars,
                   attrVars, migrateVars>>

NextApi ==
    \/ \E c \in Clients, src \in Sources \cup {"zillow"} : TriggerScrape(c, src)
    \/ \E c \in Clients, feed \in Feeds : ScrapeReturns(c, feed)
    \/ \E c \in Clients : ScrapeStatusEndpoint(c)

SpecApi == InitApi /\ [][NextApi]_vars

\* Requests suspended inside run_scrape_and_store.
Scraping == { c \in DOMAIN request : request[c].pc = "scraping" }

\* C37: while a scrape started through trigger_scrape is in progress the
\* scrape status has running = true and a second trigger_scrape returns
\* "Scrape already in progress" without starting another scrape, so at most
\* one scrape is in progress; when none is, running is false.
RunningFlagGuardsTrigger ==
    /\ scrape_status["running"] = (Scraping # {})
    /\ Cardinality(Scraping) <= 1

\* The pages of a feed a page-by-page scrape gets through: those before the
\* page whose load fails, all of them when none fails.
PagesBeforeFailure(feed) ==
    IF feed.fail_at # None /\ feed.fail_at < Len(feed.pages)
    THEN feed.fail_at
    ELSE Len(feed.pages)

\* C38: run_scrape_and_store for source craigslist saves after each page: when
\* the call ends, the listings of every page before the one whose scraping
\* failed are in the store, and when no page failed the call returns with
\* scraped / new / updated summed and scraped_external_ids united over the
\* saved pages.
CraigslistSavedPageByPage ==
    [][ \A c \in Clients :
          (/\ request[c].pc = "scraping"
           /\ request[c].source = "craigslist"
           /\ request'[c].pc = "done") =>
             LET feed == request'[c].feed
                 k == PagesBeforeFailure(feed)
                 saved == UNION { { feed.pages[n][j] : j \in DOMAIN feed.pages[n] } :
                                    n \in 1..k }
                 res == request'[c].result
             IN  /\ \A id \in saved : Matching(store', "craigslist", id) # {}
                 /\ k = Len(feed.pages) =>
                       /\ request'[c].response = "Scrape completed"
                       /\ res.scraped = Cardinality(saved)
                       /\ res.new + res.updated = res.scraped
                       /\ res.scraped_external_ids = saved ]_vars

\* ------------------- scripts/migrate_to_supabase.py (SpecMigrate)
\* Rows the listings table of the source database holds.
MaxSourceRows == 2
\* Times migrate_data is run on the same pair of databases.
MaxMigrations == 2

\* --batch-size values.
BatchSizes == {1, 2}

\* Listings as the scraper's runs leave them in a database: inserted by run
\* 1, marked off-market by run 2, seen again by run 3 at another price.
ListingA ==
    NewListing(ScrapedListing("A", "craigslist", "t1", 1000, NtaName, <<"img">>,
                              40, -73, "in_unit"), 1, 1)

ListingAOff == MarkRow(ListingA, 2, 2)

ListingABack ==
    UpdateExisting(ListingAOff,
                   ScrapedListing("A", "craigslist", "t2", 1200, RawName, <<>>,
                                  None, None, "none"), 3, 3)

ListingB ==
    NewListing(ScrapedListing("B", "craigslist", "t1", 1000, NoName, <<>>,
                              None, None, "building"), 1, 1)

ListingBOff == MarkRow(ListingB, 2, 2)

MigratedRows == {ListingA, ListingAOff, ListingABack, ListingB, ListingBOff}

\* Two rows of one key in one table: inserted twice by one batch (equal
\* rows), or both marked off-market and one of them seen again.
Together(r1, r2) ==
    \/ KeyOf(r1) # KeyOf(r2)
    \/ r1 = r2
    \/ {r1, r2} = {ListingAOff, ListingABack}

SourceDbs ==
    { db \in UNION { [1..n -> MigratedRows] : n \in 1..MaxSourceRows } :
        \A i, j \in DOMAIN db : Together(db[i], db[j]) }

\* The target is empty, or holds a listing already.
TargetDbs == {<<>>} \cup { <<r>> : r \in MigratedRows }

\* migrate_data, the row created for a listing the target does not hold: the
\* columns named in the constructor are copied, the others (laundry_type,
\* deactivated_at, last_scrape_run_id) are NULL.
MigrateNew(listing) ==
    [listing EXCEPT !.laundry_type = NoText,
                    !.deactivated_at = None,
                    !.last_scrape_run_id = None]

\* migrate_data, the assignments to the row found in the target.  The UPDATE
\* the flush emits sets the columns whose value changed; when last_seen is
\* not one of them its onupdate default fills it in.
MigrateExisting(row, listing, t) ==
    LET copied == [row EXCEPT !.title = listing.title,
                              !.price = listing.price,
                              !.neighborhood = listing.neighborhood,
                              !.neighborhood_nta = listing.neighborhood_nta,
                              !.latitude = listing.latitude,
                              !.longitude = listing.longitude,
                              !.images = listing.images,
                              !.first_seen = listing.first_seen,
                              !.last_seen = listing.last_seen,
                              !.is_active = listing.is_active]
    IN  IF copied # row /\ copied.last_seen = row.last_seen
        THEN [copied EXCEPT !.last_seen = t]
        ELSE copied

\* The for loop over one batch.  The target session autoflushes, so the query
\* for a listing sees the rows added for the listings before it; first() may
\* return any matching row.  The value is the set of possible tables.
RECURSIVE MigrateLoop(_, _, _)
MigrateLoop(rows, batch, t) ==
    IF batch = <<>>
    THEN {rows}
    ELSE LET listing == Head(batch)
             found == Matching(rows, listing.source, listing.external_id)
         IN  IF found # {}
             THEN UNION { MigrateLoop([rows EXCEPT ![i] =
                                          MigrateExisting(rows[i], listing, t)],
                                      Tail(batch), t) : i \in found }
             ELSE MigrateLoop(Append(rows, MigrateNew(listing)), Tail(batch), t)

\* source_db.query(Listing).offset(offset).limit(batch_size).all()
OffsetLimit(rows, off, limit) ==
    SubSeq(rows, off + 1, IF off + limit < Len(rows) THEN off + limit ELSE Len(rows))

\* migrate_data has been called and has created its sessions.
InitMigrate ==
    /\ store = <<>>
    /\ now = 4
    /\ last = NoCall
    /\ runs = <<>>
    /\ sched = Idle
    /\ EnrichIdle
    /\ ScrollIdle
    /\ PagesIdle
    /\ GeoIdle
    /\ TriggersIdle
    /\ AttrsIdle
    /\ ApiIdle
    /\ source_db \in SourceDbs
    /\ target_db \in TargetDbs
    /\ offset = 0
    /\ \E size \in BatchSizes :
          migration = [pc |-> "listings", batch_size |-> size, calls |-> 1]

\* One pass of the while loop with a batch that is not empty: its listings
\* are written to the target and committed.
MigrateBatch ==
    /\ migration.pc = "listings"
    /\ OffsetLimit(source_db, offset, migration.batch_size) # <<>>
    /\ target_db' \in MigrateLoop(target_db,
                                  OffsetLimit(source_db, offset, migration.batch_size),
                                  now)
    /\ offset' = offset + migration.batch_size
    /\ UNCHANGED <<source_db, migration>>
    /\ UNCHANGED <<storeVars, enrichVars, scrollVars, pageVars, geoVars, triggerVars,
                   attrVars, apiVars>>

\* The batch is empty: the loop is left and migrate_data goes on to the
\* favorites and alerts (tables of their own) and returns.
MigrateReturn ==
    /\ migration.pc = "listings"
    /\ OffsetLimit(source_db, offset, migration.batch_size) = <<>>
    /\ migration' = [migration EXCEPT !.pc = "done"]
    /\ UNCHANGED <<source_db, target_db, offset>>
    /\ UNCHANGED <<storeVars, enrichVars, scrollVars, pageVars, geoVars, triggerVars,
                   attrVars, apiVars>>

\* A query or a commit raises: the batch under way is rolled back (the ones
\* committed before it stay) and the exception is raised again.
MigrateRaise ==
    /\ migration.pc = "listings"
    /\ migration' = [migration EXCEPT !.pc = "raised"]
    /\ UNCHANGED <<source_db, target_db, offset>>
    /\ UNCHANGED <<storeVars, enrichVars, scrollVars, pageVars, geoVars, triggerVars,
                   attrVars, apiVars>>

\* The script is run once more on the same databases.
MigrateAgain ==
    /\ migration.pc \in {"done", "raised"}
    /\ migration.calls < MaxMigrations
    /\ migration' = [migration EXCEPT !.pc = "listings", !.calls = @ + 1]
    /\ offset' = 0
    /\ UNCHANGED <<source_db, target_db>>
    /\ UNCHANGED <<storeVars, enrichVars, scrollVars, pageVars, geoVars, triggerVars,
                   attrVars, apiVars>>

NextMigrate ==
    \/ MigrateBatch
    \/ MigrateReturn
    \/ MigrateRaise
    \/ MigrateAgain

SpecMigrate == InitMigrate /\ [][NextMigrate]_vars

\* C39: migrate_data preserves the store invariants in the target: after a
\* migration (a second one, or one onto a target that held some of the
\* listings, included) every target listing is inactive if and only if its
\* deactivated_at is set, and the target holds at most one listing per
\* (source, external_id).
MigrationPreservesInvariants ==
    migration.pc = "done" =>
       /\ \A i \in DOMAIN target_db :
             ~target_db[i].is_active <=> target_db[i].deactivated_at # None
       /\ \A i, j \in DOMAIN target_db :
             KeyOf(target_db[i]) = KeyOf(target_db[j]) => i = j

====
